---- MODULE Spec2Model ----
(***************************************************************************)
(* pytrs_ext.trs_tools: custom-format Twp/Rge/Sec extraction               *)
(* (custom_trs, custom_trs_list), the FORMAT_A / FORMAT_B / FORMAT_C       *)
(* presets and the Format A serializer (trs_list_to_format_a).             *)
(*                                                                         *)
(* Text is a sequence of one-character strings, so that the regular        *)
(* expressions of the presets are matched character by character with      *)
(* Python's backtracking order (greedy quantifiers, leftmost match).       *)
(***************************************************************************)
EXTENDS Integers, Sequences, FiniteSets, TLC

VARIABLES
    pc,              \* where the caller is: "text", "collect", "single", "list", "serialized"
    txt,             \* the text passed to custom_trs / custom_trs_list
    fmt,             \* the format specification passed to custom_trs_list
    default_ns,      \* the default_ns argument (None when not given)
    default_ew,      \* the default_ew argument (None when not given)
    trs,             \* what custom_trs returned
    trs_list,        \* what custom_trs_list returned
    raised,          \* custom_trs_list ended in the decoder's exception
    caller,          \* the caller's collection
    passed,          \* the collection as it was when passed to the serializer
    shape,           \* the groups txt was written from, when it is Format A shaped
    discard_errors,  \* the discard_errors argument
    result           \* what trs_list_to_format_a returned

vars == <<pc, txt, fmt, default_ns, default_ew, trs, trs_list, raised,
          caller, passed, shape, discard_errors, result>>

(***************************************************************************)
(* Characters and the regular expression engine (Python's re).             *)
(***************************************************************************)
Digit == {"0", "1", "2", "3", "4", "5", "6", "7", "8", "9"}
NS == {"N", "S", "n", "s"}
EW == {"E", "W", "e", "w"}

None == "None"

\* Pattern nodes.
Lit(s) == [t |-> "lit", s |-> s]
Rep(cls, lo, hi) == [t |-> "rep", cls |-> cls, lo |-> lo, hi |-> hi]
One(cls) == Rep(cls, 1, 1)
Opt(e) == [t |-> "opt", e |-> e]
Plus(e) == [t |-> "plus", e |-> e]
NotAhead(e) == [t |-> "nla", e |-> e]
Cat(es) == [t |-> "cat", es |-> es]
Alt(es) == [t |-> "alt", es |-> es]
Group(name, e) == [t |-> "grp", name |-> name, e |-> e]

GroupNames == {"twp", "rge", "sec", "sec_list"}
NoGroups == [g \in GroupNames |-> <<0, 0>>]

\* The number of characters of class cls at the head of s[pos+1..], at most hi.
RECURSIVE Run(_, _, _, _)
Run(s, pos, cls, hi) ==
    IF hi = 0 \/ pos >= Len(s) THEN 0
    ELSE IF s[pos + 1] \in cls THEN 1 + Run(s, pos + 1, cls, hi - 1)
    ELSE 0

Fail == [ok |-> FALSE]

\* MatchK(todo, s, st): the backtracking matcher.  todo is the sequence of
\* pattern nodes still to match, st the position reached and the spans of
\* the named groups.  The result is the first way, in the matcher's order of
\* trial, of matching all of todo: a greedy quantifier tries the longest
\* repetition first and gives characters back only when what follows fails.
RECURSIVE MatchK(_, _, _), TryRep(_, _, _, _, _), TryAlt(_, _, _, _, _)
MatchK(todo, s, st) ==
    IF todo = <<>> THEN [ok |-> TRUE, st |-> st]
    ELSE
      LET e == Head(todo)
          rest == Tail(todo)
      IN  CASE e.t = "lit" ->
                 IF /\ st.pos + Len(e.s) <= Len(s)
                    /\ SubSeq(s, st.pos + 1, st.pos + Len(e.s)) = e.s
                 THEN MatchK(rest, s, [st EXCEPT !.pos = st.pos + Len(e.s)])
                 ELSE Fail
            [] e.t = "rep" ->
                 TryRep(Run(s, st.pos, e.cls, e.hi), e.lo, rest, s, st)
            [] e.t = "opt" ->
                 LET r == MatchK(<<e.e>> \o rest, s, st)
                 IN  IF r.ok THEN r ELSE MatchK(rest, s, st)
            [] e.t = "plus" ->
                 MatchK(<<e.e, [t |-> "star", e |-> e.e]>> \o rest, s, st)
            [] e.t = "star" ->
                 LET r == MatchK(<<e.e, e>> \o rest, s, st)
                 IN  IF r.ok THEN r ELSE MatchK(rest, s, st)
            [] e.t = "nla" ->
                 IF MatchK(<<e.e>>, s, st).ok THEN Fail
                 ELSE MatchK(rest, s, st)
            [] e.t = "cat" -> MatchK(e.es \o rest, s, st)
            [] e.t = "alt" -> TryAlt(e.es, 1, rest, s, st)
            [] e.t = "grp" ->
                 MatchK(<<e.e, [t |-> "close", name |-> e.name,
                                start |-> st.pos]>> \o rest, s, st)
            [] e.t = "close" ->
                 MatchK(rest, s,
                        [st EXCEPT !.caps[e.name] = <<e.start, st.pos>>])

\* \d{lo,n}: n characters first, then n-1, ..., then lo.
TryRep(n, lo, rest, s, st) ==
    IF n < lo THEN Fail
    ELSE LET r == MatchK(rest, s, [st EXCEPT !.pos = st.pos + n])
         IN  IF r.ok THEN r ELSE TryRep(n - 1, lo, rest, s, st)

\* a|b|c: the alternatives in the order written.
TryAlt(es, k, rest, s, st) ==
    IF k > Len(es) THEN Fail
    ELSE LET r == MatchK(<<es[k]>> \o rest, s, st)
         IN  IF r.ok THEN r ELSE TryAlt(es, k + 1, rest, s, st)

NoMatch == [found |-> FALSE]

\* A match object: its span and its groups' spans.
MatchAt(rgx, s, start) ==
    LET r == MatchK(<<rgx>>, s, [pos |-> start, caps |-> NoGroups])
    IN  IF ~r.ok THEN NoMatch
        ELSE [found |-> TRUE, start |-> start, end |-> r.st.pos,
              caps |-> r.st.caps]

\* re.search from position `from`: the leftmost start that matches.
RECURSIVE SearchFrom(_, _, _)
SearchFrom(rgx, s, from) ==
    IF from > Len(s) THEN NoMatch
    ELSE LET mo == MatchAt(rgx, s, from)
         IN  IF mo.found THEN mo ELSE SearchFrom(rgx, s, from + 1)

re_search(rgx, s) == SearchFrom(rgx, s, 0)

\* re.finditer: the non-overlapping matches, left to right; scanning resumes
\* where the previous match ended.
RECURSIVE FindFrom(_, _, _)
FindFrom(rgx, s, from) ==
    LET mo == SearchFrom(rgx, s, from)
    IN  IF ~mo.found THEN <<>>
        ELSE <<mo>> \o FindFrom(rgx, s,
                         IF mo.end > mo.start THEN mo.end ELSE mo.end + 1)

re_finditer(rgx, s) == FindFrom(rgx, s, 0)

\* mo.groupdict()[name]
GroupText(s, mo, name) == SubSeq(s, mo.caps[name][1] + 1, mo.caps[name][2])

(***************************************************************************)
(* Python built-ins used by the presets: str.split, int, str.join.         *)
(***************************************************************************)
DigitChars == <<"0", "1", "2", "3", "4", "5", "6", "7", "8", "9">>
DigitVal(c) == (CHOOSE i \in 1..10 : DigitChars[i] = c) - 1

IsDigits(s) == \A i \in 1..Len(s) : s[i] \in Digit

\* str.split(sep), sep not empty: the pieces between the separators, empty
\* pieces kept.
RECURSIVE SplitFrom(_, _, _, _)
SplitFrom(s, sep, i, cur) ==
    IF i > Len(s) THEN <<cur>>
    ELSE IF /\ i + Len(sep) - 1 <= Len(s)
            /\ SubSeq(s, i, i + Len(sep) - 1) = sep
         THEN <<cur>> \o SplitFrom(s, sep, i + Len(sep), <<>>)
         ELSE SplitFrom(s, sep, i + 1, Append(cur, s[i]))

split(s, sep) == SplitFrom(s, sep, 1, <<>>)

\* int(s) of a string of digits (a ValueError otherwise, see IntRaises).
RECURSIVE IntOf(_)
IntOf(s) ==
    IF s = <<>> THEN 0
    ELSE 10 * IntOf(SubSeq(s, 1, Len(s) - 1)) + DigitVal(s[Len(s)])

IntRaises(s) == s = <<>> \/ ~IsDigits(s)

\* str(n), n >= 0.
RECURSIVE StrOf(_)
StrOf(n) ==
    IF n < 10 THEN <<DigitChars[n + 1]>>
    ELSE StrOf(n \div 10) \o <<DigitChars[(n % 10) + 1]>>

\* sep.join(parts)
RECURSIVE join(_, _)
join(sep, parts) ==
    IF parts = <<>> THEN <<>>
    ELSE IF Len(parts) = 1 THEN parts[1]
    ELSE parts[1] \o sep \o join(sep, Tail(parts))

Lower(c) ==
    CASE c = "N" -> "n" [] c = "S" -> "s" [] c = "E" -> "e" [] c = "W" -> "w"
      [] OTHER -> c

(***************************************************************************)
(* The preset formats.                                                     *)
(***************************************************************************)
COMMA_SP == <<",", " ">>
HYPHEN == <<"-">>
SP_HYPHEN_SP == <<" ", "-", " ">>

\* A section designator is a string of characters or an integer.
StrSec(s) == [k |-> "str", v |-> s]
IntSec(n) == [k |-> "int", v |-> n]

\* r"(?P<twp>\d{1,3}[NSns])(?P<rge>\d{1,3}[EWew]) - "
\* r"(?P<sec_list>(\d{1,2}(, )?(?!\d{1,3}[NSns]))+)"
FORMAT_A_rgx ==
    Cat(<<Group("twp", Cat(<<Rep(Digit, 1, 3), One(NS)>>)),
          Group("rge", Cat(<<Rep(Digit, 1, 3), One(EW)>>)),
          Lit(SP_HYPHEN_SP),
          Group("sec_list",
                Plus(Cat(<<Rep(Digit, 1, 2), Opt(Lit(COMMA_SP)),
                           NotAhead(Cat(<<Rep(Digit, 1, 3), One(NS)>>))>>)))>>)

\* FORMAT_A's decoder splitting on ',' alone: the pieces keep their blank.
FORMAT_A_sec_key_comma(sec_list) ==
    LET parts == split(sec_list, <<",">>)
    IN  [ok |-> TRUE, secs |-> [i \in 1..Len(parts) |-> StrSec(parts[i])]]

\* lambda sec_list: sec_list.split(', ')
FORMAT_A_sec_key(sec_list) ==
    LET parts == split(sec_list, COMMA_SP)
    IN  [ok |-> TRUE, secs |-> [i \in 1..Len(parts) |-> StrSec(parts[i])]]

\* r"(?P<twp>\d{1,3})-(?P<rge>\d{1,3})-(?P<sec_list>(\d{1,3}-?)+)"
FORMAT_B_rgx ==
    Cat(<<Group("twp", Rep(Digit, 1, 3)), Lit(HYPHEN),
          Group("rge", Rep(Digit, 1, 3)), Lit(HYPHEN),
          Group("sec_list",
                Plus(Cat(<<Rep(Digit, 1, 3), Opt(Lit(HYPHEN))>>)))>>)

\* FORMAT_B's decoder without int(): the pieces keep their leading zeros.
FORMAT_B_sec_key_raw(sec_list) ==
    LET parts == split(sec_list, HYPHEN)
    IN  [ok |-> TRUE, secs |-> [i \in 1..Len(parts) |-> StrSec(parts[i])]]

\* lambda sec_list: [int(sec) for sec in sec_list.split('-')]
FORMAT_B_sec_key(sec_list) ==
    LET parts == split(sec_list, HYPHEN)
    IN  IF \E i \in 1..Len(parts) : IntRaises(parts[i])
        THEN [ok |-> FALSE, secs |-> <<>>]
        ELSE [ok |-> TRUE,
              secs |-> [i \in 1..Len(parts) |-> IntSec(IntOf(parts[i]))]]

\* r"(?P<sec_list>(\d{1,3}-?)+)-(?P<twp>\d{1,3})-(?P<rge>\d{1,3})"
FORMAT_C_rgx ==
    Cat(<<Group("sec_list",
                Plus(Cat(<<Rep(Digit, 1, 3), Opt(Lit(HYPHEN))>>))),
          Lit(HYPHEN), Group("twp", Rep(Digit, 1, 3)),
          Lit(HYPHEN), Group("rge", Rep(Digit, 1, 3))>>)

FORMAT_C_sec_key(sec_list) == FORMAT_B_sec_key(sec_list)

\* A decoder of the caller's own, over FORMAT_A's pattern: it keeps only the
\* two-character pieces, so it may return no designator at all.
CALLER_sec_key(sec_list) ==
    LET parts == split(sec_list, COMMA_SP)
        keep == SelectSeq(parts, LAMBDA p : Len(p) = 2)
    IN  [ok |-> TRUE, secs |-> [i \in 1..Len(keep) |-> StrSec(keep[i])]]

\* The example pattern of custom_trs's docstring:
\* r"(?P<twp>\d{3})-(?P<rge>\d{3})-0(?P<sec>\d{2})"
SEC_rgx ==
    Cat(<<Group("twp", Rep(Digit, 3, 3)), Lit(HYPHEN),
          Group("rge", Rep(Digit, 3, 3)), Lit(HYPHEN), Lit(<<"0">>),
          Group("sec", Rep(Digit, 2, 2))>>)

Formats == {"FORMAT_A", "FORMAT_B", "FORMAT_C", "CALLER"}
Presets == {"FORMAT_A", "FORMAT_B", "FORMAT_C"}

rgx_of(f) ==
    CASE f = "FORMAT_A" -> FORMAT_A_rgx
      [] f = "FORMAT_B" -> FORMAT_B_rgx
      [] f = "FORMAT_C" -> FORMAT_C_rgx
      [] f = "CALLER" -> FORMAT_A_rgx

sec_key(f, sec_list) ==
    CASE f = "FORMAT_A" -> FORMAT_A_sec_key(sec_list)
      [] f = "FORMAT_B" -> FORMAT_B_sec_key(sec_list)
      [] f = "FORMAT_C" -> FORMAT_C_sec_key(sec_list)
      [] f = "CALLER" -> CALLER_sec_key(sec_list)

(***************************************************************************)
(* The pytrs record type, as far as trs_tools uses it: pytrs.TRS(text),    *)
(* pytrs.TRS.from_twprgesec(...), the attributes .twprge and .sec, and     *)
(* pytrs.TRSList with filter_errors() and group().                         *)
(***************************************************************************)
ERR_TWP == <<"X", "X", "X", "z">>
ERR_RGE == <<"X", "X", "X", "z">>
ERR_SEC == <<"X", "X">>
UNDEF_TWP == <<"_", "_", "_", "z">>
UNDEF_RGE == <<"_", "_", "_", "z">>
UNDEF_SEC == <<"_", "_">>

MkTRS(twp, rge, sec) == [k |-> "trs", twp |-> twp, rge |-> rge, sec |-> sec]

ERR_TRS == MkTRS(ERR_TWP, ERR_RGE, ERR_SEC)
UNDEF_TRS == MkTRS(UNDEF_TWP, UNDEF_RGE, UNDEF_SEC)

\* The standard form '154n97w14': Twp and Rge numbers without leading zeros,
\* lower-case direction, two-digit section.
AsTwpRge(x, letters, default, err) ==
    IF x # <<>> /\ x[Len(x)] \in letters
    THEN LET num == SubSeq(x, 1, Len(x) - 1)
         IN  IF Len(num) \in 1..3 /\ IsDigits(num)
             THEN StrOf(IntOf(num)) \o <<Lower(x[Len(x)])>>
             ELSE err
    ELSE IF Len(x) \in 1..3 /\ IsDigits(x)
         THEN StrOf(IntOf(x)) \o <<default>>
         ELSE err

Pad2(digits) == IF Len(digits) = 1 THEN <<"0">> \o digits ELSE digits

\* A section of one or two digits, as a string or as an integer.
ValidSec(d) ==
    IF d.k = "int" THEN d.v \in 0..99
    ELSE Len(d.v) \in 1..2 /\ IsDigits(d.v)

AsSec(d) ==
    IF ~ValidSec(d) THEN ERR_SEC
    ELSE IF d.k = "int" THEN Pad2(StrOf(d.v)) ELSE Pad2(d.v)

\* pytrs.TRS.from_twprgesec(twp, rge, sec, default_ns, default_ew): the
\* defaults apply only where the text has no direction of its own.
from_twprgesec(twp, rge, sec, dns, dew) ==
    MkTRS(AsTwpRge(twp, NS, IF dns = None THEN "n" ELSE dns, ERR_TWP),
          AsTwpRge(rge, EW, IF dew = None THEN "w" ELSE dew, ERR_RGE),
          AsSec(sec))

\* The pattern pytrs unpacks a Twp/Rge/Sec string with.
TRS_UNPACKER_rgx ==
    Cat(<<Group("twp", Alt(<<Cat(<<Rep(Digit, 1, 3), One(NS)>>),
                             Lit(ERR_TWP), Lit(UNDEF_TWP)>>)),
          Group("rge", Alt(<<Cat(<<Rep(Digit, 1, 3), One(EW)>>),
                             Lit(ERR_RGE), Lit(UNDEF_RGE)>>)),
          Group("sec", Alt(<<Rep(Digit, 2, 2), Lit(ERR_SEC),
                             Lit(UNDEF_SEC)>>))>>)

\* pytrs.TRS(text): the undefined record of an empty text, the record a
\* text in the standard form stands for, and the error record otherwise.
TRS(text) ==
    IF text = <<>> THEN UNDEF_TRS
    ELSE LET mo == re_search(TRS_UNPACKER_rgx, text)
         IN  IF ~mo.found THEN ERR_TRS
             ELSE MkTRS(AsTwpRge(GroupText(text, mo, "twp"), NS, "n",
                                 GroupText(text, mo, "twp")),
                        AsTwpRge(GroupText(text, mo, "rge"), EW, "w",
                                 GroupText(text, mo, "rge")),
                        GroupText(text, mo, "sec"))

is_error(t) == t.twp = ERR_TWP \/ t.rge = ERR_RGE \/ t.sec = ERR_SEC
is_undef(t) == t.twp = UNDEF_TWP \/ t.rge = UNDEF_RGE \/ t.sec = UNDEF_SEC
is_valid(t) == ~is_error(t) /\ ~is_undef(t)

twprge(t) == t.twp \o t.rge
trs_str(t) == t.twp \o t.rge \o t.sec

\* pytrs.TRSList(iterable): a new list; a string element becomes TRS(string).
Str(s) == [k |-> "str", v |-> s]
TRSList(xs) ==
    [i \in 1..Len(xs) |-> IF xs[i].k = "str" THEN TRS(xs[i].v) ELSE xs[i]]

\* TRSList.filter_errors(drop=True, undef=True): what is left in the list.
filter_errors(ts) == SelectSeq(ts, is_valid)

\* TRSList.group(by_attribute='twprge'): a mapping from each key to the
\* list's members of that key, in list order.
group(ts) ==
    [key \in {twprge(ts[i]) : i \in 1..Len(ts)} |->
       SelectSeq(ts, LAMBDA t : twprge(t) = key)]

(***************************************************************************)
(* trs_tools.                                                              *)
(***************************************************************************)
\* custom_trs with re.match for re.search: a match at the start only.
custom_trs_match(text, rgx, dns, dew) ==
    LET mo == MatchAt(rgx, text, 0)
    IN  IF ~mo.found THEN TRS(text)
        ELSE from_twprgesec(GroupText(text, mo, "twp"),
                            GroupText(text, mo, "rge"),
                            StrSec(GroupText(text, mo, "sec")), dns, dew)

custom_trs(text, rgx, dns, dew) ==
    LET mo == re_search(rgx, text)
    IN  IF ~mo.found THEN TRS(text)
        ELSE from_twprgesec(GroupText(text, mo, "twp"),
                            GroupText(text, mo, "rge"),
                            StrSec(GroupText(text, mo, "sec")), dns, dew)

\* The records of one match: one per designator the decoder returned.
new_of(text, mo, secs, dns, dew) ==
    [i \in 1..Len(secs) |->
       from_twprgesec(GroupText(text, mo, "twp"), GroupText(text, mo, "rge"),
                      secs[i], dns, dew)]

\* The loop over re.finditer's matches; a decoder that raises ends the call.
RECURSIVE extend_from(_, _, _, _, _, _, _)
extend_from(text, f, mos, i, acc, dns, dew) ==
    IF i > Len(mos) THEN [raised |-> FALSE, trs_list |-> acc]
    ELSE LET dec == sec_key(f, GroupText(text, mos[i], "sec_list"))
         IN  IF ~dec.ok THEN [raised |-> TRUE, trs_list |-> <<>>]
             ELSE extend_from(text, f, mos, i + 1,
                              acc \o new_of(text, mos[i], dec.secs, dns, dew),
                              dns, dew)

\* custom_trs_list with re.search for re.finditer: the first match only.
custom_trs_list_first(text, f, dns, dew) ==
    LET mo == re_search(rgx_of(f), text)
    IN  extend_from(text, f, IF mo.found THEN <<mo>> ELSE <<>>, 1, <<>>,
                    dns, dew)

custom_trs_list(text, f, dns, dew) ==
    extend_from(text, f, re_finditer(rgx_of(f), text), 1, <<>>, dns, dew)

\* A working collection that loses its error and undefined records whatever
\* discard_errors says.
working_filtered(xs, discard) == filter_errors(TRSList(xs))

\* The working collection: a new TRSList, without the error and undefined
\* records when discard_errors is set.
working(xs, discard) ==
    IF discard THEN filter_errors(TRSList(xs)) ELSE TRSList(xs)

\* The caller's list after a call that filters the list it was passed.
caller_after_in_place(xs, discard) ==
    IF discard THEN SelectSeq(xs, LAMBDA x : is_valid(TRSList(<<x>>)[1]))
    ELSE xs

\* The caller's list after the call: the local name trs_list is rebound to
\* a new TRSList, and filter_errors() works on that one.
caller_after(xs, discard) == xs

\* The Twp/Rge keys in the order each is first seen.
RECURSIVE ordered_from(_, _, _)
ordered_from(ts, i, ordered) ==
    IF i > Len(ts) THEN ordered
    ELSE ordered_from(ts, i + 1,
                      IF \E j \in 1..Len(ordered) : ordered[j] = twprge(ts[i])
                      THEN ordered
                      ELSE Append(ordered, twprge(ts[i])))

\* The keys with each new one put in front: the reverse of first-seen order.
ordered_reversed(ts) ==
    LET o == ordered_from(ts, 1, <<>>)
    IN  [i \in 1..Len(o) |-> o[Len(o) + 1 - i]]

ordered_of(ts) == ordered_from(ts, 1, <<>>)

twprge_dct(ts) ==
    LET grouped == group(ts)
    IN  [key \in DOMAIN grouped |->
           [i \in 1..Len(grouped[key]) |-> grouped[key][i].sec]]

components(ts, sec_delimiter) ==
    LET ordered == ordered_of(ts)
        dct == twprge_dct(ts)
    IN  [i \in 1..Len(ordered) |->
           ordered[i] \o SP_HYPHEN_SP \o join(sec_delimiter, dct[ordered[i]])]

trs_list_to_format_a(xs, sec_delimiter, twprge_delimiter, discard) ==
    join(twprge_delimiter, components(working(xs, discard), sec_delimiter))

(***************************************************************************)
(* The inputs.                                                             *)
(***************************************************************************)
MaxGroups == 2
MaxColl == 3

T154n97w == <<"1", "5", "4", "n", "9", "7", "w">>
T155n98w == <<"1", "5", "5", "n", "9", "8", "w">>
S14 == <<"1", "4">>
S1 == <<"1">>
S01 == <<"0", "1">>
S11 == <<"1", "1">>
S014 == <<"0", "1", "4">>
S001 == <<"0", "0", "1">>
S123 == <<"1", "2", "3">>
X == <<"x">>
X_SP == <<"x", " ">>
SP_X == <<" ", "x">>
B_HEAD == <<"1", "5", "4", "-", "0", "9", "7", "-">>
B_NEXT == <<" ", "1", "5", "5", "-", "0", "9", "8", "-", "0", "1", "1">>
C_TAIL == <<"-", "1", "5", "4", "-", "0", "9", "7">>

\* Format A shaped text: Twp/Rge groups, each followed by ' - ' and its
\* sections joined by ', ', the groups joined by ', '.
TwpRges == {T154n97w, T155n98w}
SecLists == {<<S14, S1>>, <<S1>>, <<S01>>, <<S11>>}
AGroups == [tr : TwpRges, secs : SecLists]
AGroupSeqs == UNION {[1..n -> AGroups] : n \in 1..MaxGroups}

RenderGroup(g) == g.tr \o SP_HYPHEN_SP \o join(COMMA_SP, g.secs)
RenderA(gs) == join(COMMA_SP, [i \in 1..Len(gs) |-> RenderGroup(gs[i])])

\* One Format A group inside other text: a trailing ', ', a digit run on
\* after the last section, unrelated words.
JunkA ==
    {pre \o RenderGroup(g) \o post :
       g \in AGroups, pre \in {<<>>, X_SP}, post \in {COMMA_SP, <<"5">>, SP_X}}

\* Format B and Format C shaped text, and variations of it.
BSecLists == {<<S014, S001>>, <<S014>>, <<S14>>, <<S123>>}
TextsB ==
    {pre \o B_HEAD \o join(HYPHEN, secs) \o post :
       secs \in BSecLists, pre \in {<<>>, X}, post \in {<<>>, HYPHEN, B_NEXT}}
TextsC ==
    {pre \o join(HYPHEN, secs) \o C_TAIL :
       secs \in BSecLists, pre \in {<<>>, X}}

\* The empty text, text nothing matches, and a string in the standard form.
Plain == {<<>>, X, T154n97w \o S14}

Texts == JunkA \cup TextsB \cup TextsC \cup Plain

DefaultsNS == {None, "s"}
DefaultsEW == {None, "e"}

\* What a caller puts in a collection by hand: strings in the standard form,
\* the empty string (the undefined record) and a string that is no
\* Twp/Rge/Sec (the error record).
Pool == {Str(T154n97w \o S14), Str(T154n97w \o S01), Str(T155n98w \o S11),
         Str(<<>>), Str(X)}

(***************************************************************************)
(* The calls.                                                              *)
(***************************************************************************)
Blank == <<>>

Init ==
    /\ pc \in {"text", "collect"}
    /\ \/ pc = "text" /\ shape \in AGroupSeqs /\ txt = RenderA(shape)
       \/ pc = "text" /\ shape = <<>> /\ txt \in Texts
       \/ pc = "collect" /\ shape = <<>> /\ txt = <<>>
    /\ fmt = None
    /\ default_ns = None
    /\ default_ew = None
    /\ trs = UNDEF_TRS
    /\ trs_list = <<>>
    /\ raised = FALSE
    /\ caller = <<>>
    /\ passed = <<>>
    /\ discard_errors = FALSE
    /\ result = Blank

\* trs = custom_trs(txt, rgx, default_ns, default_ew)
CallCustomTrs(dns, dew) ==
    /\ pc = "text"
    /\ trs' = custom_trs(txt, SEC_rgx, dns, dew)
    /\ default_ns' = dns
    /\ default_ew' = dew
    /\ pc' = "single"
    /\ UNCHANGED <<txt, shape, fmt, trs_list, raised, caller, passed,
                   discard_errors, result>>

\* trs_list = custom_trs_list(txt, **fmt, default_ns, default_ew); the
\* caller keeps the list returned.
CallCustomTrsList(f, dns, dew) ==
    /\ pc = "text"
    /\ LET r == custom_trs_list(txt, f, dns, dew)
       IN  /\ raised' = r.raised
           /\ trs_list' = r.trs_list
           /\ caller' = r.trs_list
    /\ fmt' = f
    /\ default_ns' = dns
    /\ default_ew' = dew
    /\ pc' = "list"
    /\ UNCHANGED <<txt, shape, trs, passed, discard_errors, result>>

\* The caller adds a string to a collection of its own.
CallerAppend(x) ==
    /\ pc = "collect"
    /\ Len(caller) < MaxColl
    /\ caller' = Append(caller, x)
    /\ UNCHANGED <<pc, txt, shape, fmt, default_ns, default_ew, trs, trs_list,
                   raised, passed, discard_errors, result>>

\* result = trs_list_to_format_a(caller, discard_errors=discard)
CallTrsListToFormatA(discard) ==
    /\ pc \in {"list", "collect"}
    /\ ~raised
    /\ result' = trs_list_to_format_a(caller, COMMA_SP, COMMA_SP, discard)
    /\ passed' = caller
    /\ caller' = caller_after(caller, discard)
    /\ discard_errors' = discard
    /\ pc' = "serialized"
    /\ UNCHANGED <<txt, shape, fmt, default_ns, default_ew, trs, trs_list,
                   raised>>

Next ==
    \/ \E dns \in DefaultsNS, dew \in DefaultsEW : CallCustomTrs(dns, dew)
    \/ \E f \in Formats, dns \in DefaultsNS, dew \in DefaultsEW :
         CallCustomTrsList(f, dns, dew)
    \/ \E x \in Pool : CallerAppend(x)
    \/ \E discard \in BOOLEAN : CallTrsListToFormatA(discard)

Spec == Init /\ [][Next]_vars

(***************************************************************************)
(* Helpers of the properties.                                              *)
(***************************************************************************)
\* The matches custom_trs_list's call scanned, and what the decoder returned
\* for each.
Matches == re_finditer(rgx_of(fmt), txt)
Decoded(mo) == sec_key(fmt, GroupText(txt, mo, "sec_list"))

\* mos are the non-overlapping matches of rgx in s, left to right: each is
\* the match at the first position, from the end of the one before, where
\* rgx matches, and rgx matches nowhere after the last.
IsScan(rgx, s, mos) ==
    /\ \A i \in 1..Len(mos) :
         LET from == IF i = 1 THEN 0 ELSE mos[i - 1].end
         IN  /\ mos[i].start >= from
             /\ mos[i].end > mos[i].start
             /\ MatchAt(rgx, s, mos[i].start) = mos[i]
             /\ \A q \in from..(mos[i].start - 1) : ~MatchAt(rgx, s, q).found
    /\ \A q \in (IF mos = <<>> THEN 0 ELSE mos[Len(mos)].end)..Len(s) :
         ~MatchAt(rgx, s, q).found

\* The number of records of the matches before the i-th.
RECURSIVE Offset(_, _)
Offset(mos, i) ==
    IF i <= 1 THEN 0
    ELSE Offset(mos, i - 1) + Len(Decoded(mos[i - 1]).secs)

\* Where sub first starts in s (0 when nowhere), and how often it occurs.
Occurrences(s, sub) ==
    {i \in 1..(Len(s) - Len(sub) + 1) : SubSeq(s, i, i + Len(sub) - 1) = sub}
IndexOf(s, sub) ==
    IF Occurrences(s, sub) = {} THEN 0
    ELSE CHOOSE i \in Occurrences(s, sub) :
           \A j \in Occurrences(s, sub) : i <= j

FirstIndex(ts, key) ==
    CHOOSE i \in 1..Len(ts) :
      /\ twprge(ts[i]) = key
      /\ \A j \in 1..(i - 1) : twprge(ts[j]) # key

Header(key) == key \o SP_HYPHEN_SP

\* The records the serializer has to write: those passed, less the error and
\* undefined ones when discard_errors is set.
Kept ==
    LET ts == TRSList(passed)
    IN  IF discard_errors THEN SelectSeq(ts, is_valid) ELSE ts

\* The documented examples of the presets.
FORMAT_EXAMPLES ==
    [FORMAT_A |->
       [input |-> <<"1", "5", "4", "n", "9", "7", "w", " ", "-", " ", "1", "4", ",", " ", "1", ",", " ", "1", "5", "5", "n", "9", "8", "w", " ", "-", " ", "1", "1">>,
        output |-> <<<<"1", "5", "4", "n", "9", "7", "w", "1", "4">>,
                     <<"1", "5", "4", "n", "9", "7", "w", "0", "1">>,
                     <<"1", "5", "5", "n", "9", "8", "w", "1", "1">>>>],
     FORMAT_B |->
       [input |-> <<"1", "5", "4", "-", "0", "9", "7", "-", "0", "1", "4", "-", "0", "0", "1">>,
        output |-> <<<<"1", "5", "4", "n", "9", "7", "w", "1", "4">>,
                     <<"1", "5", "4", "n", "9", "7", "w", "0", "1">>>>],
     FORMAT_C |->
       [input |-> <<"0", "1", "4", "-", "1", "5", "4", "-", "0", "9", "7">>,
        output |-> <<<<"1", "5", "4", "n", "9", "7", "w", "1", "4">>>>]]

\* The start of the leftmost text of the form ddd-ddd-0dd, the only form
\* SEC_rgx matches; -1 when there is none.
HasSecForm(s, i) ==
    /\ i + 11 <= Len(s)
    /\ \A j \in {1, 2, 3, 5, 6, 7, 10, 11} : s[i + j] \in Digit
    /\ s[i + 4] = "-" /\ s[i + 8] = "-" /\ s[i + 9] = "0"
Leftmost(s) ==
    IF \E i \in 0..Len(s) : HasSecForm(s, i)
    THEN CHOOSE i \in 0..Len(s) :
           HasSecForm(s, i) /\ \A j \in 0..(i - 1) : ~HasSecForm(s, j)
    ELSE -1

\* A group's sections as the record type writes them.
Padded(gs) ==
    [i \in 1..Len(gs) |->
       [tr |-> gs[i].tr,
        secs |-> [j \in 1..Len(gs[i].secs) |-> Pad2(gs[i].secs[j])]]]

DistinctKeys(gs) ==
    \A i, j \in 1..Len(gs) : gs[i].tr = gs[j].tr => i = j

RoundTripped ==
    /\ pc = "serialized"
    /\ fmt = "FORMAT_A"
    /\ shape # <<>>

(***************************************************************************)
(* The properties.                                                         *)
(***************************************************************************)

\* C1: when the pattern matches nowhere in the text, custom_trs returns the
\* undefined record for the empty text and the error record for every other
\* text.
C1_NoMatchIsSentinel ==
    (pc = "single" /\ ~re_search(SEC_rgx, txt).found)
        => trs = (IF txt = <<>> THEN UNDEF_TRS ELSE ERR_TRS)

\* C2: the list custom_trs_list returns is the concatenation, over the
\* non-overlapping matches left to right, of the records built from
\* (twp, rge, d) for each designator d the decoder returned for that match,
\* in the decoder's order: nothing is dropped, added or deduplicated.
C2_ListIsConcatenation ==
    (pc = "list" /\ ~raised) =>
        LET mos == Matches
        IN  /\ IsScan(rgx_of(fmt), txt, mos)
            /\ Len(trs_list) = Offset(mos, Len(mos) + 1)
            /\ \A i \in 1..Len(mos) :
                 \A j \in 1..Len(Decoded(mos[i]).secs) :
                   trs_list[Offset(mos, i) + j] =
                     from_twprgesec(GroupText(txt, mos[i], "twp"),
                                    GroupText(txt, mos[i], "rge"),
                                    Decoded(mos[i]).secs[j],
                                    default_ns, default_ew)

\* C2's case: two matches, the first of which decodes to no designator, and
\* one record in all.
C2_Witness ==
    /\ pc = "list" /\ ~raised /\ fmt = "CALLER"
    /\ Len(Matches) = 2
    /\ Decoded(Matches[1]).secs = <<>>
    /\ Len(trs_list) = 1

\* C3: every Twp/Rge key of the working collection heads exactly one group
\* of the string, and the groups stand in the order in which the keys first
\* occur in the working collection.
C3_GroupsInFirstSeenOrder ==
    pc = "serialized" =>
        LET ts == Kept
            keys == {twprge(ts[i]) : i \in 1..Len(ts)}
        IN  /\ \A key \in keys :
                 Cardinality(Occurrences(result, Header(key))) = 1
            /\ \A k1, k2 \in keys :
                 (FirstIndex(ts, k1) < FirstIndex(ts, k2))
                   <=> (IndexOf(result, Header(k1)) < IndexOf(result, Header(k2)))

\* C3's case: a key recurs with another key in between, and the key seen
\* first is not the first in sorted order.
C3_Witness ==
    /\ pc = "serialized"
    /\ Len(Kept) = 3
    /\ twprge(Kept[1]) = T155n98w
    /\ twprge(Kept[2]) = T154n97w
    /\ twprge(Kept[3]) = T155n98w

\* C4 as claimed: serializing what FORMAT_A extracts from a Format A shaped
\* string gives the string back, its sections written in two digits, with
\* the same groups in the same order.
C4_RoundTrip ==
    RoundTripped => result = RenderA(Padded(shape))

\* C4 as amended: the same, for a string in which no Twp/Rge occurs in more
\* than one group.
C4_RoundTripDistinctKeys ==
    (RoundTripped /\ DistinctKeys(shape)) => result = RenderA(Padded(shape))

\* C4's case: two groups of different Twp/Rge, one of them with a section
\* written in one digit.
C4_Witness ==
    /\ RoundTripped
    /\ Len(shape) = 2
    /\ DistinctKeys(shape)
    /\ shape[1].secs = <<S14, S1>>
    /\ result # txt

\* C5: the string holds one section entry per record of the working
\* collection, and is empty when the working collection is.
C5_OneEntryPerRecord ==
    pc = "serialized" =>
        LET n == IF discard_errors
                 THEN Cardinality({i \in 1..Len(passed) :
                                     is_valid(TRSList(passed)[i])})
                 ELSE Len(passed)
        IN  IF n = 0 THEN result = <<>>
            ELSE Len(split(result, COMMA_SP)) = n

\* C5's case: error and undefined records serialized with discard_errors
\* off, beside a valid one.
C5_Witness ==
    /\ pc = "serialized"
    /\ ~discard_errors
    /\ passed = <<Str(X), Str(T154n97w \o S14), Str(<<>>)>>
    /\ Len(split(result, COMMA_SP)) = 3

\* C6: ['154n97w14', '154n97w01', '155n98w11'] serializes to
\* '154n97w - 14, 1, 155n98w - 11'.
C6_DocumentedString ==
    (/\ pc = "serialized"
     /\ passed = <<Str(T154n97w \o S14), Str(T154n97w \o S01),
                   Str(T155n98w \o S11)>>)
        => result = FORMAT_EXAMPLES["FORMAT_A"].input

\* C7: each preset, applied to its documented example input without
\* defaults, returns the records of the documented output, in order.
C7_ExamplesHold ==
    \A f \in Presets :
      (/\ pc = "list" /\ fmt = f
       /\ txt = FORMAT_EXAMPLES[f].input
       /\ default_ns = None /\ default_ew = None)
          => /\ ~raised
             /\ [i \in 1..Len(trs_list) |-> trs_str(trs_list[i])]
                  = FORMAT_EXAMPLES[f].output

\* C7's case: FORMAT_C's example has been extracted.
C7_Witness ==
    /\ pc = "list" /\ fmt = "FORMAT_C"
    /\ txt = FORMAT_EXAMPLES["FORMAT_C"].input
    /\ default_ns = None /\ default_ew = None
    /\ Len(trs_list) = 1

\* C8: when the pattern matches, custom_trs returns the one record built
\* from the twp, rge and sec of the leftmost match and the caller's
\* defaults; the text around the match and later matches do not count.
C8_LeftmostMatchOnly ==
    (pc = "single" /\ Leftmost(txt) >= 0) =>
        LET i == Leftmost(txt)
        IN  /\ trs = from_twprgesec(SubSeq(txt, i + 1, i + 3),
                                    SubSeq(txt, i + 5, i + 7),
                                    StrSec(SubSeq(txt, i + 10, i + 11)),
                                    default_ns, default_ew)
            /\ trs.twp[Len(trs.twp)] = (IF default_ns = None THEN "n"
                                        ELSE default_ns)
            /\ trs.rge[Len(trs.rge)] = (IF default_ew = None THEN "w"
                                        ELSE default_ew)

\* C8's case: the match starts after other text and a second match follows.
C8_Witness ==
    /\ pc = "single"
    /\ txt = X \o B_HEAD \o S014 \o B_NEXT
    /\ default_ns = "s" /\ default_ew = "e"
    /\ trs_str(trs) = <<"1", "5", "4", "s", "9", "7", "e", "1", "4">>

C10_DecoderOutputValid ==
    (pc = "list" /\ fmt \in Presets) =>
        /\ ~raised
        /\ \A i \in 1..Len(Matches) :
             \A j \in 1..Len(Decoded(Matches[i]).secs) :
               ValidSec(Decoded(Matches[i]).secs[j])

====
